---- MODULE Spec2Model ----
(***************************************************************************)
(* Model of the clipper desktop shell (src-tauri): the tray controller     *)
(* (core/tray.rs), the window close interceptor (core/window_handler.rs)   *)
(* and the bootstrap that wires them during setup (lib.rs).                *)
(*                                                                         *)
(* The host framework is represented by the state of the "main" window it  *)
(* keeps (visible, minimized, focused, always-on-top), by the Result of    *)
(* every window call (Ok applies the effect, Err leaves the window as it   *)
(* was), and by its default handling of a close request (destroy unless    *)
(* the handler called prevent_close).                                      *)
(*                                                                         *)
(* Callbacks run on the host's dispatch thread, one at a time: each is one *)
(* action.  A delayed worker touches only the always-on-top flag through   *)
(* the host, so its single call is one action interleaved between them.    *)
(***************************************************************************)
EXTENDS Integers, Sequences, FiniteSets, TLC

\* ------------------------------------------------------------------ bounds
MaxWorkers == 3   \* pending delayed workers kept at once
MaxEmits == 2     \* "exit-requested" notifications counted

\* ------------------------------------------------------- inputs and values
\* tray.rs:22-76: the three identifiers and one the match does not name
MenuIds == {"quit", "show", "hide", "other"}

\* tray.rs:80-84: MouseButton, MouseButtonState and the TrayIconEvent variants:
\* Click carries a button and its state, DoubleClick a button, Move neither
MouseButton == {"Left", "Right", "Middle"}
MouseButtonState == {"Up", "Down"}
TrayIconEvents ==
  {<<"Click", b, bs>> : b \in MouseButton, bs \in MouseButtonState}
    \cup {<<"DoubleClick", b>> : b \in MouseButton}
    \cup {<<"Move">>}

\* the fallible window calls of the show sequence (tray.rs:32-50, 91-109)
ShowCalls == {"show", "unminimize", "set_focus", "set_always_on_top"}

\* one Result (TRUE = Ok, FALSE = Err) per call of the show sequence
ShowResults == [ShowCalls -> BOOLEAN]

\* the main window as the host keeps it
WindowStates ==
  [exists : BOOLEAN, visible : BOOLEAN, minimized : BOOLEAN,
   focused : BOOLEAN, alwaysOnTop : BOOLEAN]

NoWindow ==
  [exists |-> FALSE, visible |-> FALSE, minimized |-> FALSE,
   focused |-> FALSE, alwaysOnTop |-> FALSE]

\* ------------------------------------------------- host window operations
\* window.show(): tray.rs:32, 91
show(w, ok) == IF ok THEN [w EXCEPT !.visible = TRUE] ELSE w

\* window.unminimize(): tray.rs:37, 96
unminimize(w, ok) == IF ok THEN [w EXCEPT !.minimized = FALSE] ELSE w

\* window.set_focus(): tray.rs:42, 101
set_focus(w, ok) == IF ok THEN [w EXCEPT !.focused = TRUE] ELSE w

\* window.set_always_on_top(b): tray.rs:47, 54, 106, 113
set_always_on_top(w, b, ok) == IF ok THEN [w EXCEPT !.alwaysOnTop = b] ELSE w

\* window.hide(): tray.rs:65, window_handler.rs:15
hide(w, ok) ==
  IF ok THEN [w EXCEPT !.visible = FALSE, !.focused = FALSE] ELSE w

\* what a callback did: the window it leaves, the window calls it attempted
\* in order, the workers it spawned, the notifications it emitted, whether it
\* called prevent_close, whether it raised (panicked) into its caller
Outcome(w, calls, nspawn, nemit, veto, raise) ==
  [win |-> w, ops |-> calls, spawned |-> nspawn, emits |-> nemit,
   prevented |-> veto, raised |-> raise]

\* ------------------------------------------------------- tray controller
\* variant of menu_quit: the emit line is missing
menu_quit_no_emit(w) == Outcome(w, <<>>, 0, 0, FALSE, FALSE)

\* variant of menu_quit: the arm also closes the window itself
menu_quit_closing(w) == Outcome(NoWindow, <<>>, 0, 1, FALSE, FALSE)

\* on_menu_event, "quit" arm: one emit of "exit-requested", its Result dropped
menu_quit(w) == Outcome(w, <<>>, 0, 1, FALSE, FALSE)

\* variant of menu_show: every call is followed by ? -- the arm returns at the
\* first Err, before the later calls and the spawn
menu_show_short_circuit(w, r) ==
  IF ~w.exists THEN Outcome(w, <<>>, 0, 0, FALSE, FALSE)
  ELSE IF ~r["show"] THEN Outcome(w, <<"show">>, 0, 0, FALSE, FALSE)
  ELSE IF ~r["unminimize"]
  THEN Outcome(show(w, TRUE), <<"show", "unminimize">>, 0, 0, FALSE, FALSE)
  ELSE IF ~r["set_focus"]
  THEN Outcome(unminimize(show(w, TRUE), TRUE),
               <<"show", "unminimize", "set_focus">>, 0, 0, FALSE, FALSE)
  ELSE LET w3 == set_focus(unminimize(show(w, TRUE), TRUE), TRUE)
       IN IF ~r["set_always_on_top"]
          THEN Outcome(w3,
                 <<"show", "unminimize", "set_focus", "set_always_on_top(true)">>,
                 0, 0, FALSE, FALSE)
          ELSE Outcome(set_always_on_top(w3, TRUE, TRUE),
                 <<"show", "unminimize", "set_focus", "set_always_on_top(true)">>,
                 1, 0, FALSE, FALSE)

\* variant of menu_show: the arm joins the thread it spawned, so the clear is
\* made before the callback returns
menu_show_joining(w, r) ==
  IF w.exists
  THEN LET w1 == show(w, r["show"])
           w2 == unminimize(w1, r["unminimize"])
           w3 == set_focus(w2, r["set_focus"])
           w4 == set_always_on_top(w3, TRUE, r["set_always_on_top"])
       IN Outcome(set_always_on_top(w4, FALSE, TRUE),
                  <<"show", "unminimize", "set_focus", "set_always_on_top(true)",
                    "set_always_on_top(false)">>,
                  0, 0, FALSE, FALSE)
  ELSE Outcome(w, <<>>, 0, 0, FALSE, FALSE)

\* variant of menu_show: the four calls without the spawned worker
menu_show_no_spawn(w, r) ==
  IF w.exists
  THEN LET w1 == show(w, r["show"])
           w2 == unminimize(w1, r["unminimize"])
           w3 == set_focus(w2, r["set_focus"])
           w4 == set_always_on_top(w3, TRUE, r["set_always_on_top"])
       IN Outcome(w4,
                  <<"show", "unminimize", "set_focus", "set_always_on_top(true)">>,
                  0, 0, FALSE, FALSE)
  ELSE Outcome(w, <<>>, 0, 0, FALSE, FALSE)

\* on_menu_event, "show" arm: look the window up; if found, four calls whose
\* Err is printed and otherwise ignored, then one spawned worker
menu_show(w, r) ==
  IF w.exists
  THEN LET w1 == show(w, r["show"])
           w2 == unminimize(w1, r["unminimize"])
           w3 == set_focus(w2, r["set_focus"])
           w4 == set_always_on_top(w3, TRUE, r["set_always_on_top"])
       IN Outcome(w4,
                  <<"show", "unminimize", "set_focus", "set_always_on_top(true)">>,
                  1, 0, FALSE, FALSE)
  ELSE Outcome(w, <<>>, 0, 0, FALSE, FALSE)

\* variant of menu_hide: the arm closes the window instead of hiding it
menu_hide_destroys(w, ok) ==
  IF w.exists
  THEN Outcome(IF ok THEN NoWindow ELSE w, <<"hide">>, 0, 0, FALSE, FALSE)
  ELSE Outcome(w, <<>>, 0, 0, FALSE, FALSE)

\* variant of menu_hide: the lookup is unwrapped instead of matched
menu_hide_unwrap(w, ok) ==
  IF w.exists
  THEN Outcome(hide(w, ok), <<"hide">>, 0, 0, FALSE, FALSE)
  ELSE Outcome(w, <<>>, 0, 0, FALSE, TRUE)

\* variant of menu_hide: the arm also drops always-on-top after hiding
menu_hide_and_clear(w, ok) ==
  IF w.exists
  THEN Outcome(set_always_on_top(hide(w, ok), FALSE, TRUE),
               <<"hide", "set_always_on_top(false)">>, 0, 0, FALSE, FALSE)
  ELSE Outcome(w, <<>>, 0, 0, FALSE, FALSE)

\* on_menu_event, "hide" arm: look the window up; if found, one hide call
menu_hide(w, ok) ==
  IF w.exists
  THEN Outcome(hide(w, ok), <<"hide">>, 0, 0, FALSE, FALSE)
  ELSE Outcome(w, <<>>, 0, 0, FALSE, FALSE)

\* variant of menu_unknown: the default arm is unreachable!()
menu_unknown_panics(w) == Outcome(w, <<>>, 0, 0, FALSE, TRUE)

\* on_menu_event, default arm: the identifier is printed, nothing else
menu_unknown(w) == Outcome(w, <<>>, 0, 0, FALSE, FALSE)

\* on_menu_event: the match on event.id
on_menu_event(id, w, r, ok) ==
  CASE id = "quit" -> menu_quit(w)
    [] id = "show" -> menu_show(w, r)
    [] id = "hide" -> menu_hide(w, ok)
    [] OTHER -> menu_unknown(w)

\* variant of tray_left_up: the show call is missing
tray_left_up_no_show(w, r) ==
  IF w.exists
  THEN LET w2 == unminimize(w, r["unminimize"])
           w3 == set_focus(w2, r["set_focus"])
           w4 == set_always_on_top(w3, TRUE, r["set_always_on_top"])
       IN Outcome(w4,
                  <<"unminimize", "set_focus", "set_always_on_top(true)">>,
                  1, 0, FALSE, FALSE)
  ELSE Outcome(w, <<>>, 0, 0, FALSE, FALSE)

\* variant of tray_left_up: set_focus is called before unminimize
tray_left_up_reordered(w, r) ==
  IF w.exists
  THEN LET w1 == show(w, r["show"])
           w2 == set_focus(w1, r["set_focus"])
           w3 == unminimize(w2, r["unminimize"])
           w4 == set_always_on_top(w3, TRUE, r["set_always_on_top"])
       IN Outcome(w4,
                  <<"show", "set_focus", "unminimize", "set_always_on_top(true)">>,
                  1, 0, FALSE, FALSE)
  ELSE Outcome(w, <<>>, 0, 0, FALSE, FALSE)

\* on_tray_icon_event, body of the if-let: the same lookup, calls and spawn,
\* written out a second time in the source
tray_left_up(w, r) ==
  IF w.exists
  THEN LET w1 == show(w, r["show"])
           w2 == unminimize(w1, r["unminimize"])
           w3 == set_focus(w2, r["set_focus"])
           w4 == set_always_on_top(w3, TRUE, r["set_always_on_top"])
       IN Outcome(w4,
                  <<"show", "unminimize", "set_focus", "set_always_on_top(true)">>,
                  1, 0, FALSE, FALSE)
  ELSE Outcome(w, <<>>, 0, 0, FALSE, FALSE)

\* variant of on_tray_icon_event: the pattern does not name the button
on_tray_icon_event_any_button(event, w, r) ==
  IF event[1] = "Click" /\ event[3] = "Up"
  THEN tray_left_up(w, r)
  ELSE Outcome(w, <<>>, 0, 0, FALSE, FALSE)

\* on_tray_icon_event: the if-let pattern Click { Left, Up, .. }
on_tray_icon_event(event, w, r) ==
  IF event = <<"Click", "Left", "Up">>
  THEN tray_left_up(w, r)
  ELSE Outcome(w, <<>>, 0, 0, FALSE, FALSE)

\* variant of worker: a failed clear is retried by a fresh worker
worker_retrying(w, ok) ==
  Outcome(set_always_on_top(w, FALSE, ok /\ w.exists),
          <<"set_always_on_top(false)">>,
          IF ok /\ w.exists THEN 0 ELSE 1, 0, FALSE, FALSE)

\* the spawned closure after its sleep: one set_always_on_top(false) on the
\* handle it owns, the Result dropped; the call fails when the window is gone
worker(w, ok) ==
  Outcome(set_always_on_top(w, FALSE, ok /\ w.exists),
          <<"set_always_on_top(false)">>, 0, 0, FALSE, FALSE)

\* ------------------------------------------------ window close interceptor
\* variant of on_close_requested: prevent_close only after a successful hide
on_close_requested_veto_if_hidden(w, ok) ==
  IF w.exists
  THEN Outcome(hide(w, ok), <<"hide">>, 0, 0, ok, FALSE)
  ELSE Outcome(w, <<>>, 0, 0, TRUE, FALSE)

\* variant of on_close_requested: the closure also drops always-on-top
on_close_requested_clearing(w, ok) ==
  IF w.exists
  THEN Outcome(set_always_on_top(hide(w, ok), FALSE, TRUE),
               <<"hide", "set_always_on_top(false)">>, 0, 0, TRUE, FALSE)
  ELSE Outcome(w, <<>>, 0, 0, TRUE, FALSE)

\* variant of on_close_requested: hide without prevent_close
on_close_requested_no_veto(w, ok) ==
  IF w.exists
  THEN Outcome(hide(w, ok), <<"hide">>, 0, 0, FALSE, FALSE)
  ELSE Outcome(w, <<>>, 0, 0, FALSE, FALSE)

\* the on_window_event closure on CloseRequested: prevent_close, then look the
\* window up again and hide it, an Err only printed
on_close_requested(w, ok) ==
  IF w.exists
  THEN Outcome(hide(w, ok), <<"hide">>, 0, 0, TRUE, FALSE)
  ELSE Outcome(w, <<>>, 0, 0, TRUE, FALSE)

\* variant of setup_window_close_handler: the closure is registered whether
\* or not the lookup found a window
setup_window_close_handler_always(w) == TRUE

\* setup_window_close_handler: the closure is registered only on a window
\* found under "main" at that moment
setup_window_close_handler(w) == w.exists

\* the host's part of a close request: the registered closure runs if there is
\* one; a request nobody vetoed destroys the window, and the process ends with
\* its last window
close_request(installed, w, ok) ==
  LET o == IF installed THEN on_close_requested(w, ok)
                        ELSE Outcome(w, <<>>, 0, 0, FALSE, FALSE)
  IN IF o.prevented THEN o ELSE [o EXCEPT !.win = NoWindow]

\* --------------------------------------------------------------- bootstrap
\* create_tray: "Err" when a MenuItem::with_id or Menu::with_items fails (the
\* four ? of lines 11-15), "Panic" when default_window_icon() is None (unwrap),
\* otherwise Ok(()) -- the Result of build(app) is bound to _ and dropped, so
\* the tray (and with it both callbacks) may be missing after an Ok
create_tray(itemsOk, menuOk, hasIcon, buildOk) ==
  IF ~itemsOk \/ ~menuOk THEN [result |-> "Err", tray |-> "failed"]
  ELSE IF ~hasIcon THEN [result |-> "Panic", tray |-> "failed"]
  ELSE IF ~buildOk THEN [result |-> "Ok", tray |-> "failed"]
  ELSE [result |-> "Ok", tray |-> "built"]

\* run, the setup callback: the log plugin in a debug build (?), create_tray
\* (?), then setup_window_close_handler; any Err or panic ends startup
run(w, debug, logOk, itemsOk, menuOk, hasIcon, buildOk) ==
  IF debug /\ ~logOk
  THEN [phase |-> "aborted", tray |-> "unbuilt", closeHandler |-> FALSE]
  ELSE LET t == create_tray(itemsOk, menuOk, hasIcon, buildOk)
       IN IF t.result # "Ok"
          THEN [phase |-> "aborted", tray |-> t.tray, closeHandler |-> FALSE]
          ELSE [phase |-> "running", tray |-> t.tray,
                closeHandler |-> setup_window_close_handler(w)]

\* ------------------------------------------------------------------- state
VARIABLES
  phase,         \* "boot", "running", "aborted" (startup failed), "exited"
  tray,          \* "unbuilt", "built", "failed": outcome of tray construction
  closeHandler,  \* TRUE when the CloseRequested closure is registered
  win,           \* the "main" window in the host's registry
  workers,       \* spawned workers that have not yet made their call
  emitted,       \* "exit-requested" notifications emitted so far
  cleared,       \* Result of the most recent worker call: "none", "ok", "err"
  last           \* the event handled last and what its callback did

vars == <<phase, tray, closeHandler, win, workers, emitted, cleared, last>>

\* the Results the host gave to the calls of one callback, in call order
ResultsOf(calls, r, ok) ==
  [i \in 1..Len(calls) |->
     CASE calls[i] = "show" -> r["show"]
       [] calls[i] = "unminimize" -> r["unminimize"]
       [] calls[i] = "set_focus" -> r["set_focus"]
       [] calls[i] = "set_always_on_top(true)" -> r["set_always_on_top"]
       [] OTHER -> ok]

\* the record of one dispatched event: its kind and argument, whether the
\* event dispatched before it was a close request, whether the lookup found
\* the window and whether the window was hidden then, and what the callback did
Handled(kind, arg, prev, w, o, res) ==
  [kind |-> kind, arg |-> arg, afterClose |-> prev = "close",
   found |-> w.exists,
   hidden |-> w.exists /\ ~w.visible, ops |-> o.ops,
   res |-> res, spawned |-> o.spawned, emits |-> o.emits,
   prevented |-> o.prevented, raised |-> o.raised]

AllOk == [c \in ShowCalls |-> TRUE]

\* the host hands out a Result only for a call that can be made: the Results of
\* the show sequence are drawn for a show trigger, that of hide for a hide
ResultsFor(called) == IF called THEN ShowResults ELSE {AllOk}
ResultFor(called) == IF called THEN BOOLEAN ELSE {TRUE}

\* the window as the host created it before setup (or none under "main")
InitialWindows ==
  {NoWindow} \cup
  {w \in WindowStates : w.exists /\ ~w.alwaysOnTop}

Init ==
  /\ phase = "boot"
  /\ tray = "unbuilt"
  /\ closeHandler = FALSE
  /\ win \in InitialWindows
  /\ workers = 0
  /\ emitted = 0
  /\ cleared = "none"
  /\ last = Handled("boot", <<>>, "none", win,
                    Outcome(win, <<>>, 0, 0, FALSE, FALSE), <<>>)

\* what every callback's return does to the state
Apply(kind, arg, o, res, ended) ==
  /\ workers + o.spawned <= MaxWorkers
  /\ emitted + o.emits <= MaxEmits
  /\ win' = o.win
  /\ workers' = workers + o.spawned - ended
  /\ emitted' = emitted + o.emits
  /\ phase' = IF o.raised THEN "aborted"
              ELSE IF ~o.win.exists /\ win.exists THEN "exited"
              ELSE phase
  /\ last' = Handled(kind, arg, last.kind, win, o, res)

\* lib.rs run: the one-time setup callback
Setup ==
  /\ phase = "boot"
  /\ \E debug, logOk, itemsOk, menuOk, hasIcon, buildOk \in BOOLEAN :
       LET s == run(win, debug, logOk, itemsOk, menuOk, hasIcon, buildOk)
       IN /\ phase' = s.phase
          /\ tray' = s.tray
          /\ closeHandler' = s.closeHandler
  /\ last' = Handled("setup", <<>>, last.kind, win,
                     Outcome(win, <<>>, 0, 0, FALSE, FALSE), <<>>)
  /\ UNCHANGED <<win, workers, emitted, cleared>>

\* a selection in the tray menu
MenuEvent ==
  /\ phase = "running" /\ tray = "built"
  /\ \E id \in MenuIds :
     \E r \in ResultsFor(id = "show" /\ win.exists),
        ok \in ResultFor(id = "hide" /\ win.exists) :
       LET o == on_menu_event(id, win, r, ok)
       IN Apply("menu", <<id>>, o, ResultsOf(o.ops, r, ok), 0)
  /\ UNCHANGED <<tray, closeHandler, cleared>>

\* a mouse event on the tray icon
TrayIconEvent ==
  /\ phase = "running" /\ tray = "built"
  /\ \E event \in TrayIconEvents :
     \E r \in ResultsFor(event = <<"Click", "Left", "Up">> /\ win.exists) :
       LET o == on_tray_icon_event(event, win, r)
       IN Apply("tray", event, o, ResultsOf(o.ops, r, TRUE), 0)
  /\ UNCHANGED <<tray, closeHandler, cleared>>

\* a close request on the main window
CloseRequested ==
  /\ phase = "running" /\ win.exists
  /\ \E ok \in BOOLEAN :
       LET o == close_request(closeHandler, win, ok)
       IN Apply("close", <<>>, o, ResultsOf(o.ops, AllOk, ok), 0)
  /\ UNCHANGED <<tray, closeHandler, cleared>>

\* a spawned worker wakes and makes its one call
WorkerRun ==
  /\ phase = "running" /\ workers > 0
  /\ \E ok \in BOOLEAN :
       LET o == worker(win, ok)
           done == ok /\ win.exists
       IN /\ Apply("worker", <<>>, o, <<done>>, 1)
          /\ cleared' = IF done THEN "ok" ELSE "err"
  /\ UNCHANGED <<tray, closeHandler>>

\* the host registers a window under "main" after setup has run (the lookup of
\* window_handler.rs:6 is made once, at setup; the lookups of the tray
\* callbacks are made again at every event and find it)
WindowCreated ==
  /\ phase = "running" /\ ~win.exists
  /\ win' \in InitialWindows \ {NoWindow}
  /\ last' = Handled("created", <<>>, last.kind, win,
                      Outcome(win, <<>>, 0, 0, FALSE, FALSE), <<>>)
  /\ UNCHANGED <<phase, tray, closeHandler, workers, emitted, cleared>>

Next ==
  Setup \/ MenuEvent \/ TrayIconEvent \/ CloseRequested \/ WorkerRun
    \/ WindowCreated

Spec == Init /\ [][Next]_vars

\* ------------------------------------------------------------ properties
ShowSequence == <<"show", "unminimize", "set_focus", "set_always_on_top(true)">>
LeftUp == <<"Click", "Left", "Up">>

IsMenu(l, id) == l.kind = "menu" /\ l.arg = <<id>>
IsLeftUp(l) == l.kind = "tray" /\ l.arg = LeftUp
IsOtherTray(l) == l.kind = "tray" /\ l.arg # LeftUp
IsShowTrigger(l) == IsMenu(l, "show") \/ IsLeftUp(l)

C2_Original ==
  (phase = "running" /\ workers = 0) => ~win.alwaysOnTop

\* C2 amended: once no spawned worker is left to run, always-on-top is false
\* unless the call of the worker that ran last failed (the failure is dropped
\* and the flag stays as the last trigger set it).
C2_ClearedWhenLastClearOk ==
  (phase = "running" /\ workers = 0 /\ cleared # "err") => ~win.alwaysOnTop

C2_Witness ==
  /\ phase = "running" /\ workers = 0 /\ cleared = "ok"
  /\ last.kind = "worker" /\ last.res = <<TRUE>>
  /\ win.exists /\ win.visible /\ ~win.alwaysOnTop

\* C3: for the window as it is and every combination of Results, a "show"
\* selection and a left-button-release click do the same thing: the same calls
\* in the order show, unminimize, set_focus, set_always_on_top(true), one
\* spawned worker, the same window afterwards; the worker's one call is
\* set_always_on_top(false).
C3_ShowEqualsLeftClick ==
  /\ \A r \in ShowResults :
       LET m == on_menu_event("show", win, r, TRUE)
           t == on_tray_icon_event(LeftUp, win, r)
       IN /\ m = t
          /\ win.exists => (t.ops = ShowSequence /\ t.spawned = 1)
  /\ (IsShowTrigger(last) /\ last.found) =>
        (last.ops = ShowSequence /\ last.spawned = 1)
  /\ last.kind = "worker" => last.ops = <<"set_always_on_top(false)">>

C3_Witness ==
  /\ IsLeftUp(last) /\ last.found
  /\ last.ops = ShowSequence /\ last.spawned = 1
  /\ win.visible /\ ~win.minimized /\ win.focused /\ win.alwaysOnTop

\* C4: a "quit" selection emits exactly one "exit-requested" notification,
\* with or without a main window.
C4_QuitEmitsOnce ==
  [][IsMenu(last', "quit") => (emitted' = emitted + 1 /\ last'.emits = 1)]_vars

C4_Witness ==
  IsMenu(last, "quit") /\ ~last.found /\ last.emits = 1 /\ emitted = 2

\* C5: a "show" or "hide" selection or a left-button-release click handled
\* while there is no main window makes no window call, spawns no worker and
\* raises nothing: the process keeps running with the state it had.
C5_NoWindowNoOp ==
  [][((IsShowTrigger(last') \/ IsMenu(last', "hide")) /\ ~win.exists) =>
       /\ last'.ops = <<>>
       /\ last'.spawned = 0
       /\ ~last'.raised
       /\ workers' = workers
       /\ win' = win
       /\ phase' = "running"]_vars

C5_Witness ==
  /\ IsMenu(last, "hide") /\ ~last.found
  /\ last.ops = <<>> /\ last.spawned = 0 /\ ~win.exists /\ phase = "running"

\* C6 as stated: the application is never running with tray construction
\* having failed.
C6_NeverRunningWithoutTray ==
  phase = "running" => tray # "failed"

\* C7: a tray-icon event other than a left-button release makes no window
\* call and spawns no worker; the window is left as it was.
C7_OtherTrayEventsIgnored ==
  [][IsOtherTray(last') =>
       /\ last'.ops = <<>>
       /\ last'.spawned = 0
       /\ workers' = workers
       /\ win' = win]_vars

C7_Witness ==
  /\ last.kind = "tray" /\ last.arg = <<"Click", "Right", "Up">>
  /\ last.found /\ last.ops = <<>> /\ last.spawned = 0
  /\ win.exists /\ ~win.visible

\* C8: selecting an identifier other than "quit", "show", "hide" changes no
\* window state, emits nothing, and does not crash.
C8_UnknownIdNoOp ==
  [][IsMenu(last', "other") =>
       /\ last'.ops = <<>>
       /\ win' = win
       /\ emitted' = emitted
       /\ workers' = workers
       /\ ~last'.raised
       /\ phase' = "running"]_vars

C8_Witness ==
  /\ IsMenu(last, "other") /\ last.found /\ last.ops = <<>>
  /\ win.exists /\ win.visible /\ phase = "running"

\* C9 as stated: "hide" with the window present and visible makes exactly one
\* hide call and no other, leaves the window hidden, emits nothing, raises
\* nothing.
C9_Original ==
  [][(IsMenu(last', "hide") /\ win.exists /\ win.visible) =>
       /\ last'.ops = <<"hide">>
       /\ ~win'.visible
       /\ emitted' = emitted
       /\ ~last'.raised]_vars

\* C9 amended: "hide" with the window present and visible makes exactly one
\* hide call and no other, emits nothing, raises nothing; the window is
\* hidden when that call succeeds and is left as it was when it fails.
C9_HideOnce ==
  [][(IsMenu(last', "hide") /\ win.exists /\ win.visible) =>
       /\ last'.ops = <<"hide">>
       /\ emitted' = emitted
       /\ workers' = workers
       /\ ~last'.raised
       /\ phase' = "running"
       /\ last'.res = <<TRUE>> =>
            (~win'.visible /\ win'.exists /\ win'.alwaysOnTop = win.alwaysOnTop
               /\ win'.minimized = win.minimized)
       /\ last'.res = <<FALSE>> => win' = win]_vars

C9_Witness ==
  /\ IsMenu(last, "hide") /\ last.found
  /\ last.ops = <<"hide">> /\ last.res = <<TRUE>>
  /\ win.exists /\ ~win.visible /\ win.alwaysOnTop

\* C10: a "quit" selection makes no window call and does not end the process:
\* the window is as it was and the process is running when the handler
\* returns.
C10_QuitTouchesNothing ==
  [][IsMenu(last', "quit") =>
       /\ last'.ops = <<>>
       /\ win' = win
       /\ workers' = workers
       /\ ~last'.raised
       /\ phase' = "running"]_vars

C10_Witness ==
  /\ IsMenu(last, "quit") /\ last.found /\ last.ops = <<>>
  /\ win.exists /\ win.visible /\ win.focused /\ phase = "running"

AllSucceeded(l) == \A i \in 1..Len(l.res) : l.res[i]

\* C11: in a show trigger that found the window, each of the four calls is
\* made exactly once and in order whatever the Results of the others, each
\* takes effect exactly when its own Result is Ok, the worker is spawned in
\* every case, and no failure is raised into the caller.
C11_ShowCallsIndependent ==
  [][(IsShowTrigger(last') /\ win.exists) =>
       /\ last'.ops = ShowSequence
       /\ Len(last'.res) = 4
       /\ last'.spawned = 1
       /\ workers' = workers + 1
       /\ ~last'.raised
       /\ phase' = "running"
       /\ win'.visible = (win.visible \/ last'.res[1])
       /\ win'.minimized = (win.minimized /\ ~last'.res[2])
       /\ win'.focused = (win.focused \/ last'.res[3])
       /\ win'.alwaysOnTop = (win.alwaysOnTop \/ last'.res[4])]_vars

C11_Witness ==
  /\ IsMenu(last, "show") /\ last.found /\ last.hidden
  /\ last.ops = ShowSequence /\ last.res = <<FALSE, TRUE, FALSE, TRUE>>
  /\ last.spawned = 1 /\ ~win.visible /\ ~win.minimized /\ win.alwaysOnTop

\* C12: when the hide made by the close closure fails, the request is vetoed
\* all the same: the window is there and as it was, nothing is raised, the
\* process is running.
C12_VetoDespiteFailedHide ==
  [][(last'.kind = "close" /\ closeHandler /\ last'.res = <<FALSE>>) =>
       /\ last'.prevented
       /\ win' = win
       /\ win'.exists
       /\ ~last'.raised
       /\ phase' = "running"]_vars

C12_Witness ==
  /\ last.kind = "close" /\ closeHandler /\ last.res = <<FALSE>>
  /\ last.prevented /\ win.exists /\ win.visible /\ phase = "running"

C14_HandlersDoNotWait ==
  [][/\ (IsShowTrigger(last') /\ win.exists) =>
          /\ workers' = workers + 1
          /\ last'.ops = ShowSequence
          /\ last'.res[4] => win'.alwaysOnTop
     /\ last'.kind \in {"menu", "tray", "close"} => workers' >= workers]_vars

C14_Witness ==
  /\ last.kind = "close" /\ closeHandler /\ workers = 2
  /\ win.alwaysOnTop /\ emitted = 1 /\ phase = "running"

\* C15: a show trigger that found the window spawns exactly one worker; a
\* worker step ends that worker after exactly one set_always_on_top(false),
\* spawns nothing and raises nothing; a failed call changes nothing, a
\* successful one only the flag.
C15_OneWorkerOneAttempt ==
  [][/\ (IsShowTrigger(last') /\ win.exists) =>
          (last'.spawned = 1 /\ workers' = workers + 1)
     /\ last'.kind = "worker" =>
          /\ workers' = workers - 1
          /\ last'.ops = <<"set_always_on_top(false)">>
          /\ last'.spawned = 0
          /\ ~last'.raised
          /\ phase' = phase
          /\ emitted' = emitted
          /\ last'.res = <<FALSE>> => win' = win
          /\ last'.res = <<TRUE>> => win' = [win EXCEPT !.alwaysOnTop = FALSE]]_vars

C15_Witness ==
  /\ last.kind = "worker" /\ last.res = <<FALSE>> /\ workers = 0
  /\ win.exists /\ win.alwaysOnTop /\ phase = "running"

\* C16: a show trigger on a hidden window whose four calls all succeed leaves
\* it visible, not minimized and focused; a close request never turns a
\* hidden window visible.
C16_ShowReversesHide ==
  [][/\ (IsShowTrigger(last') /\ win.exists /\ ~win.visible
           /\ AllSucceeded(last')) =>
          (win'.visible /\ ~win'.minimized /\ win'.focused)
     /\ (last'.kind = "close" /\ ~win.visible) => ~win'.visible]_vars

C16_Witness ==
  /\ IsLeftUp(last) /\ last.afterClose /\ last.hidden /\ closeHandler
  /\ AllSucceeded(last) /\ win.visible /\ win.focused

\* C17: the CloseRequested closure is registered exactly when setup found a
\* window under "main"; with none, setup still succeeds (nothing is raised),
\* the registration never changes afterwards, and a close request on a window
\* that appeared later runs no closure, is not vetoed, and destroys the window.
C17_HandlerOnlyIfWindowAtSetup ==
  [][/\ (last'.kind = "setup" /\ phase' = "running") =>
          (closeHandler' = win.exists /\ ~last'.raised)
     /\ phase # "boot" => closeHandler' = closeHandler
     /\ (last'.kind = "close" /\ ~closeHandler) =>
          /\ ~last'.prevented
          /\ last'.ops = <<>>
          /\ ~win'.exists
          /\ phase' = "exited"]_vars

C17_Witness ==
  /\ last.kind = "close" /\ ~closeHandler /\ last.found
  /\ ~last.prevented /\ ~win.exists /\ phase = "exited"

\* C18: a worker step changes nothing of the window but always-on-top; a
\* "hide" selection or a vetoed close request leaves the pending workers and
\* the flag as they were.
C18_PulseIndependentOfHide ==
  [][/\ last'.kind = "worker" =>
          /\ win'.exists = win.exists
          /\ win'.visible = win.visible
          /\ win'.minimized = win.minimized
          /\ win'.focused = win.focused
     /\ (IsMenu(last', "hide") \/ (last'.kind = "close" /\ closeHandler)) =>
          /\ workers' = workers
          /\ cleared' = cleared
          /\ win'.alwaysOnTop = win.alwaysOnTop]_vars

C18_Witness ==
  /\ last.kind = "close" /\ closeHandler /\ last.res = <<TRUE>>
  /\ ~win.visible /\ win.alwaysOnTop /\ workers > 0

====
